---- MODULE Spec2Model ----
(***************************************************************************)
(* The virtualized image grid (class ImageGrid): layout, the materialized  *)
(* window of asset elements, the proximity observer's shift loops, the     *)
(* self-scheduled range adjustment, the resize handler, the selection      *)
(* driven by the pointer and the keyboard, the detail view, and the        *)
(* element's disconnection. A second part is the FFmpeg build script and   *)
(* its lock directory, run by several processes at once.                   *)
(***************************************************************************)
EXTENDS Integers, Sequences, FiniteSets, TLC

VARIABLES items, width, innerHeight, cols, totalRows, maxEnd, window, range,
          dom, attached, detached, listeners, pc, iters, timers, chain, calls, log,
          selected, summary, dialogFile, dialogOpen, closeListener, inputs,
          run, lockDir, lockOwner, pkgConfig

gridVars == <<items, width, innerHeight, cols, totalRows, maxEnd, window, range,
              dom, attached, detached, listeners, pc, iters, timers, chain, calls,
              log, selected, summary, dialogFile, dialogOpen, closeListener,
              inputs>>
scriptVars == <<run, lockDir, lockOwner, pkgConfig>>
vars == <<gridVars, scriptVars>>

layoutVars == <<cols, totalRows, maxEnd, window>>
lifeVars == <<attached, detached, listeners>>
viewVars == <<width, innerHeight>>
dialogVars == <<dialogFile, dialogOpen, closeListener>>
uiVars == <<summary, dialogVars, inputs>>

----------------------------------------------------------------------------
(* Program constants *)

CellWidth == 150
CellGap == 25
RowHeight == 200
BufferRows == 30
ShiftRows == 5
AdjustOffset == 1500
AdjustThreshold == 1000
LoopThreshold == 1100

(* Bounds of the model *)

MaxIters == 2
MaxTimers == 2
MaxChain == 2
MaxCalls == 4
MaxInputs == 2
NumRuns == 3

(* Inputs of the model *)

\* the concurrent runs of the build script with one PREFIX; NoRun is none
Runs == 1..NumRuns
NoRun == 0

ItemCounts == {0, 3, 71}
Widths == {150, 325}
Heights == {200}
TargetStarts == {-3, 10, 66, 75}
SentinelOffsets == {500, 1200}
SelectItemCounts == {36}
ClickIndices == {30, 35}
CallIds == {0, 35, 99}
Buttons == {0, 2, 3}

----------------------------------------------------------------------------
(* Arithmetic *)

Min(a, b) == IF a < b THEN a ELSE b
Max(a, b) == IF a > b THEN a ELSE b

\* Math.floor(a / b) and Math.ceil(a / b) for integers a and b > 0
Floor(a, b) == a \div b
Ceil(a, b) == -((-a) \div b)

\* the indices lo, lo+1, .., hi as a list (empty when hi < lo)
Upto(lo, hi) == [k \in 1..Max(hi - lo + 1, 0) |-> lo + k - 1]
\* the indices hi, hi-1, .., lo as a list (empty when hi < lo)
Downto(hi, lo) == [k \in 1..Max(hi - lo + 1, 0) |-> hi - k + 1]

----------------------------------------------------------------------------
(* The collection: a list of MediaInfo, [id |-> .., file_type |-> ..]; item *)
(* ids are stable and unrelated to positions                               *)

\* null, for a primary or a dialogFile that is not set (ids are >= 0)
Null == -1

\* the values of file_type the code recognizes
FileTypes == <<"image", "video", "audio">>

\* n items of the recognized kinds
MkItems(n) ==
  [k \in 1..n |-> [id |-> n - k, file_type |-> FileTypes[((n - k) % 3) + 1]]]

\* this.items[index].id (indices are 0-based in the source)
ItemId(index) == items[index + 1].id

\* this.items.findIndex(x => x.id === id)
FindIndex(id) ==
  LET hits == {k \in 1..Len(items) : items[k].id = id}
  IN  IF hits = {} THEN -1
      ELSE (CHOOSE k \in hits : \A j \in hits : k <= j) - 1

----------------------------------------------------------------------------
(* calculateLayout *)

LayoutCols_Ceil(w) == Max(1, Ceil(w + CellGap, CellWidth + CellGap))
LayoutCols(w) == Max(1, Floor(w + CellGap, CellWidth + CellGap))
LayoutTotalRows(n, c) == Ceil(n, c)
LayoutMaxEnd_Unpadded(n, c) == n - 1
LayoutMaxEnd(n, c) == Ceil(n, c) * c - 1
LayoutWindow(h, c) == (Ceil(h, RowHeight + CellGap) + BufferRows) * c
LayoutRange_Window(win, mx) == [start |-> 0, end |-> win - 1]
LayoutRange(win, mx) == [start |-> 0, end |-> Min(win - 1, mx)]

----------------------------------------------------------------------------
(* The rendering surface #items: the list of asset elements, each with   *)
(* its id attribute and whether it carries the video and the selected      *)
(* attributes                                                              *)

\* querySelector(`asset-element[id='..']`) followed by element.remove():
\* the first element with that id in document order
RemoveFirst(s, id) ==
  LET hits == {k \in 1..Len(s) : s[k].id = id}
  IN  IF hits = {} THEN s
      ELSE LET k == CHOOSE k \in hits : \A j \in hits : k <= j
           IN  SubSeq(s, 1, k - 1) \o SubSeq(s, k + 1, Len(s))

removeElement(s, index) ==
  IF index < 0 \/ index >= Len(items) THEN s
  ELSE RemoveFirst(s, ItemId(index))

createElement_Padded(index) ==
  IF index < 0 \/ Len(items) = 0 THEN << >>
  ELSE << [id |-> ItemId(Min(index, Len(items) - 1)), video |-> FALSE,
           selected |-> FALSE] >>
\* AssetElement({id, file_name, video: file.file_type === "video"})
AssetElement(file, mark) ==
  [id |-> file.id, video |-> file.file_type = "video", selected |-> mark]

createElement_Unmarked(index) ==
  IF index < 0 \/ index >= Len(items) THEN << >>
  ELSE << AssetElement(items[index + 1], FALSE) >>
\* the element createElement returns, as a list: empty for null
createElement(index) ==
  IF index < 0 \/ index >= Len(items) THEN << >>
  ELSE << AssetElement(items[index + 1], ItemId(index) \in selected.selected) >>

\* The three loops below run their body once per index of `list`, in list
\* order. The list is folded by halves, and both arguments are bound to their
\* values on entry (as the members of one-element sets), so that each is
\* evaluated once: this keeps the evaluation shallow and changes no result.

RECURSIVE RemoveAll(_, _)
\* for (i of list) this.removeElement(i)
RemoveAll(s, list) ==
  CHOOSE r \in
    {IF Len(l) = 0 THEN t
     ELSE IF Len(l) = 1 THEN removeElement(t, l[1])
     ELSE RemoveAll(RemoveAll(t, SubSeq(l, 1, Len(l) \div 2)),
                    SubSeq(l, (Len(l) \div 2) + 1, Len(l)))
       : t \in {s}, l \in {list}} : TRUE

RECURSIVE AppendAll(_, _)
\* for (i of list) { e = this.createElement(i); if (e) items.appendChild(e) }
AppendAll(s, list) ==
  CHOOSE r \in
    {IF Len(l) = 0 THEN t
     ELSE IF Len(l) = 1 THEN t \o createElement(l[1])
     ELSE AppendAll(AppendAll(t, SubSeq(l, 1, Len(l) \div 2)),
                    SubSeq(l, (Len(l) \div 2) + 1, Len(l)))
       : t \in {s}, l \in {list}} : TRUE

RECURSIVE PrependAll(_, _)
\* for (i of list) { e = this.createElement(i); if (e) items.prepend(e) }
PrependAll(s, list) ==
  CHOOSE r \in
    {IF Len(l) = 0 THEN t
     ELSE IF Len(l) = 1 THEN createElement(l[1]) \o t
     ELSE PrependAll(PrependAll(t, SubSeq(l, 1, Len(l) \div 2)),
                     SubSeq(l, (Len(l) \div 2) + 1, Len(l)))
       : t \in {s}, l \in {list}} : TRUE

----------------------------------------------------------------------------
(* Selection. A view v is the selected set, the primary, the elements, the *)
(* text of #items-selected and the preview requests made so far (the ids   *)
(* whose big thumbnail #sidebar-image was pointed at):                     *)
(* [selected |-> .., primary |-> .., dom |-> .., summary |-> ..,           *)
(*  requests |-> ..]                                                       *)

\* the element querySelector(`asset-element[id="i"]`) finds is the first
\* one with that id in document order
IsFirst(s, k) == \A j \in 1..(k - 1) : s[j].id # s[k].id

\* setAttribute("selected", "") / removeAttribute("selected") on the element
\* found for each id of `ids`
MarkAll(s, ids, value) ==
  [k \in 1..Len(s) |->
     IF s[k].id \in ids /\ IsFirst(s, k)
       THEN [s[k] EXCEPT !.selected = value] ELSE s[k]]

setSelected(v, i, value) ==
  [v EXCEPT !.selected = IF value THEN @ \cup {i} ELSE @ \ {i},
            !.dom = MarkAll(@, {i}, value)]

setPrimary_AlwaysRequests(v, primary) ==
  [v EXCEPT !.primary = primary,
            !.requests = IF primary # Null /\ FindIndex(primary) >= 0
                           THEN Append(@, primary) ELSE @]
\* the request is made when primary differs from the old one, is not null
\* and this.items.find(x => x.id === primary) finds its file
setPrimary(v, primary) ==
  [v EXCEPT !.primary = primary,
            !.requests = IF primary # v.primary /\ primary # Null
                            /\ FindIndex(primary) >= 0
                           THEN Append(@, primary) ELSE @]

clearSelected_KeepsPrimary(v) ==
  [v EXCEPT !.selected = {}, !.dom = MarkAll(@, v.selected, FALSE)]
\* for (const i of this.selected.selected) this.setSelected(i, false);
\* this.setPrimary(null)
clearSelected(v) ==
  setPrimary([v EXCEPT !.selected = {},
                       !.dom = MarkAll(@, v.selected, FALSE)], Null)

\* the text updateSelected writes for n selected items: "No items selected",
\* "1 item selected", "n items selected"
SummaryText(n) ==
  IF n = 0 THEN [count |-> "No", noun |-> "items"]
  ELSE [count |-> ToString(n), noun |-> IF n = 1 THEN "item" ELSE "items"]

updateSelected(v) ==
  [v EXCEPT !.summary = SummaryText(Cardinality(v.selected))]

\* the positions the shift branch walks: startPosition and endPosition are
\* swapped when startPosition > endPosition
SelectPositions_NoSwap(startPosition, endPosition) ==
  Upto(startPosition, endPosition)
SelectPositions(startPosition, endPosition) ==
  Upto(Min(startPosition, endPosition), Max(startPosition, endPosition))

\* for (i = startPosition; i <= endPosition; i++)
\*   this.setSelected(this.items[i].id, true)
SelectAll(v, positions) ==
  LET ids == {ItemId(positions[k]) : k \in 1..Len(positions)}
  IN  [v EXCEPT !.selected = @ \cup ids, !.dom = MarkAll(@, ids, TRUE)]

\* this.items[i] is undefined for i = -1 and reading its id throws
SelectThrows(positions) ==
  \E k \in 1..Len(positions) : positions[k] < 0 \/ positions[k] >= Len(items)

\* whether the mousedown listener throws: the shift loop reads items[-1].id
\* first when the primary is not an item's id
MouseDownThrows(v, id, button, shiftKey) ==
  /\ button # 3 /\ button # 4
  /\ shiftKey /\ v.primary # Null
  /\ SelectThrows(SelectPositions(FindIndex(v.primary), FindIndex(id)))

mousedown_AnyButton(v, id, button, shiftKey, ctrlKey) ==
  IF button = 3 \/ button = 4 THEN v
  ELSE IF shiftKey /\ v.primary # Null
    THEN IF MouseDownThrows(v, id, button, shiftKey) THEN v
         ELSE setPrimary(SelectAll(v, SelectPositions(FindIndex(v.primary),
                                                      FindIndex(id))), id)
  ELSE IF ctrlKey
    THEN IF id \in v.selected
           THEN LET w == setSelected(v, id, FALSE)
                IN  IF v.primary = id THEN setPrimary(w, Null) ELSE w
           ELSE setPrimary(setSelected(v, id, TRUE), id)
  ELSE setPrimary(setSelected(clearSelected(v), id, TRUE), id)

mousedown_KeepsPrimary(v, id, button, shiftKey, ctrlKey) ==
  IF button = 3 \/ button = 4 THEN v
  ELSE IF shiftKey /\ v.primary # Null
    THEN IF MouseDownThrows(v, id, button, shiftKey) THEN v
         ELSE setPrimary(SelectAll(v, SelectPositions(FindIndex(v.primary),
                                                      FindIndex(id))), id)
  ELSE IF ctrlKey
    THEN IF id \in v.selected
           THEN setSelected(v, id, FALSE)
           ELSE setPrimary(setSelected(v, id, TRUE), id)
  ELSE IF button = 0 \/ id \notin v.selected
    THEN setPrimary(setSelected(clearSelected(v), id, TRUE), id)
  ELSE v
\* the mousedown listener of the element with this id, up to the button
\* test that opens the dialog; the view is left as it is when it throws
mousedown(v, id, button, shiftKey, ctrlKey) ==
  IF button = 3 \/ button = 4 THEN v
  ELSE IF shiftKey /\ v.primary # Null
    THEN IF MouseDownThrows(v, id, button, shiftKey) THEN v
         ELSE setPrimary(SelectAll(v, SelectPositions(FindIndex(v.primary),
                                                      FindIndex(id))), id)
  ELSE IF ctrlKey
    THEN IF id \in v.selected
           THEN LET w == setSelected(v, id, FALSE)
                IN  IF v.primary = id THEN setPrimary(w, Null) ELSE w
           ELSE setPrimary(setSelected(v, id, TRUE), id)
  ELSE IF button = 0 \/ id \notin v.selected
    THEN setPrimary(setSelected(clearSelected(v), id, TRUE), id)
  ELSE v

\* if (!this.selected.primary): null and the id 0 are both falsy
NoPrimary(primary) == primary = Null \/ primary = 0

----------------------------------------------------------------------------
(* The detail view. A dialog d is the file shown, whether #file-dialog is  *)
(* open, whether a close listener is registered and whether the handler    *)
(* has thrown: [file |-> .., open |-> .., listener |-> .., threw |-> ..]   *)

\* createSource throws unless fileType is "image", "video" or "audio"
createSourceThrows(fileType) ==
  \A k \in 1..Len(FileTypes) : fileType # FileTypes[k]

\* this.dialogFile = file; createSource(..); addEventListener("close", ..)
changeFileDialog(d, file) ==
  IF createSourceThrows(file.file_type)
    THEN [d EXCEPT !.file = file.id, !.threw = TRUE]
    ELSE [d EXCEPT !.file = file.id, !.listener = TRUE]

\* fileDialog.showModal(); await this.changeFileDialog(file)
showFileDialog(d, file) == changeFileDialog([d EXCEPT !.open = TRUE], file)

\* the close event: the listeners registered since the last one run
\* (this.dialogFile = null) and, being once-listeners, are dropped
closeFileDialog(d) ==
  [d EXCEPT !.open = FALSE,
            !.file = IF d.listener THEN Null ELSE @,
            !.listener = FALSE]

----------------------------------------------------------------------------
(* shiftForwards *)

FwdDistance_NoCols(r, c, mx) == Min(ShiftRows, mx - r.end)
FwdDistance(r, c, mx) == Min(c * ShiftRows, mx - r.end)
FwdRange(r, c, mx) ==
  [start |-> r.start + FwdDistance(r, c, mx), end |-> r.end + FwdDistance(r, c, mx)]
\* for (i = oldStart; i < this.range.start; i++) this.removeElement(i)
FwdRemoved(r, c, mx) == Upto(r.start, FwdRange(r, c, mx).start - 1)
\* for (i = oldEnd + 1; i <= this.range.end; i++) .. this.createElement(i)
FwdCreated(r, c, mx) == Upto(r.end + 1, FwdRange(r, c, mx).end)
FwdDom(s, r, c, mx) ==
  AppendAll(RemoveAll(s, FwdRemoved(r, c, mx)), FwdCreated(r, c, mx))

shiftForwards ==
  /\ range' = FwdRange(range, cols, maxEnd)
  /\ dom' = FwdDom(dom, range, cols, maxEnd)
  /\ log' = [op |-> "shiftForwards", old |-> range,
             removed |-> FwdRemoved(range, cols, maxEnd),
             created |-> FwdCreated(range, cols, maxEnd)]
  /\ selected' = selected

(* shiftBackwards *)

BwdDistance_NoCols(r, c) == Min(ShiftRows, r.start)
BwdDistance(r, c) == Min(c * ShiftRows, r.start)
BwdRange_StartOnly(r, c) == [start |-> r.start - BwdDistance(r, c), end |-> r.end]
BwdRange(r, c) ==
  [start |-> r.start - BwdDistance(r, c), end |-> r.end - BwdDistance(r, c)]
BwdCreated_Ascending(r, c) == Upto(BwdRange(r, c).start, r.start - 1)
\* for (i = oldStart - 1; i >= this.range.start; i--) .. this.createElement(i)
BwdCreated(r, c) == Downto(r.start - 1, BwdRange(r, c).start)
BwdRemoved_None(r, c) == << >>
\* for (i = oldEnd; i > this.range.end; i--) this.removeElement(i)
BwdRemoved(r, c) == Downto(r.end, BwdRange(r, c).end + 1)
BwdDom(s, r, c) == RemoveAll(PrependAll(s, BwdCreated(r, c)), BwdRemoved(r, c))

shiftBackwards_Deselects ==
  /\ range' = BwdRange(range, cols)
  /\ dom' = BwdDom(dom, range, cols)
  /\ log' = [op |-> "shiftBackwards", old |-> range,
             removed |-> BwdRemoved(range, cols),
             created |-> BwdCreated(range, cols)]
  /\ selected' = [selected EXCEPT
                    !.selected = @ \ ({dom[k].id : k \in 1..Len(dom)}
                                       \ {dom'[k].id : k \in 1..Len(dom')})]
shiftBackwards ==
  /\ range' = BwdRange(range, cols)
  /\ dom' = BwdDom(dom, range, cols)
  /\ log' = [op |-> "shiftBackwards", old |-> range,
             removed |-> BwdRemoved(range, cols),
             created |-> BwdCreated(range, cols)]
  /\ selected' = selected

(* shiftRange(start, removeExisting), under the layout (win, mx) *)

SRRemoved_Never(r, removeExisting) == << >>
\* if (removeExisting) for (i = this.range.start; i <= this.range.end; i++) ..
SRRemoved(r, removeExisting) ==
  IF removeExisting THEN Upto(r.start, r.end) ELSE << >>
SRRange(start, win, mx) ==
  [start |-> Max(start, 0), end |-> Min(Max(start, 0) + win - 1, mx)]
SRCreated(start, win, mx) ==
  Upto(SRRange(start, win, mx).start, SRRange(start, win, mx).end)
SRDom(s, r, start, removeExisting, win, mx) ==
  AppendAll(RemoveAll(s, SRRemoved(r, removeExisting)), SRCreated(start, win, mx))

shiftRange(start, removeExisting) ==
  /\ range' = SRRange(start, window, maxEnd)
  /\ dom' = SRDom(dom, range, start, removeExisting, window, maxEnd)
  /\ log' = [op |-> "shiftRange", old |-> range, target |-> start,
             removeExisting |-> removeExisting,
             removed |-> SRRemoved(range, removeExisting),
             created |-> SRCreated(start, window, maxEnd)]
  /\ selected' = selected

(* adjustRange: the readings of the two sentinels and of the container *)

\* startSentinel.getBoundingClientRect().bottom > -1000
StartNear(bottom) == bottom > -AdjustThreshold
\* endSentinel.getBoundingClientRect().top < window.innerHeight + 1000
EndNear(top, h) == top < h + AdjustThreshold

AdjustCond(r, mx, bottom, top, h) ==
  \/ r.start > 0 /\ StartNear(bottom)
  \/ r.end < mx /\ EndNear(top, h)

\* Math.ceil((top - 1500) / (200 + 25)) * this.cols
AdjustStart_Pixels(top, c) == Ceil((top - AdjustOffset) * c, RowHeight + CellGap)
AdjustStart(top, c) == Ceil(top - AdjustOffset, RowHeight + CellGap) * c

\* -container.getBoundingClientRect().top: the container is
\* totalRows * (200 + 25) - 25 pixels high and is scrolled by at most its own
\* height: not at all, a few rows, or to its very end
ContainerTops(tr) == {0, 2400, Max(0, tr * (RowHeight + CellGap) - CellGap)}

----------------------------------------------------------------------------
(* The state after construction: ImageGrid.create(items), not yet attached *)

\* no run of the build script has started; nothing is installed
InitScript ==
  /\ run = [p \in Runs |-> "start"]
  /\ lockDir = FALSE
  /\ lockOwner = NoRun
  /\ pkgConfig = FALSE

\* the fields of a new grid, but for the collection and the viewport
InitFields ==
  /\ InitScript
  /\ cols = 0 /\ totalRows = 0 /\ maxEnd = -1 /\ window = 0
  /\ range = [start |-> 0, end |-> -1]
  /\ dom = << >>
  /\ attached = FALSE
  /\ detached = FALSE
  /\ listeners = {}
  /\ pc = "idle"
  /\ iters = 0
  /\ timers = 0
  /\ chain = 0
  /\ calls = 0
  /\ selected = [selected |-> {}, primary |-> Null]
  /\ summary = [count |-> "", noun |-> ""]
  /\ dialogFile = Null
  /\ dialogOpen = FALSE
  /\ closeListener = FALSE
  /\ inputs = 0
  /\ log = [op |-> "create", old |-> [start |-> 0, end |-> -1],
            removed |-> << >>, created |-> << >>]

\* the grid in a wrapper of one of the widths
InitGrid ==
  /\ width \in Widths
  /\ innerHeight \in Heights
  /\ InitFields

Init ==
  /\ items \in {MkItems(n) : n \in ItemCounts}
  /\ InitGrid

\* connectedCallback: layout, then the initial window is materialized, and
\* the key listener is added to the document and the resize listener to the
\* window. The model follows one connection of the element.
Attach ==
  /\ ~attached /\ ~detached
  /\ LET c == LayoutCols(width)
         mx == LayoutMaxEnd(Len(items), c)
         win == LayoutWindow(innerHeight, c)
         r == LayoutRange(win, mx)
     IN  /\ cols' = c
         /\ totalRows' = LayoutTotalRows(Len(items), c)
         /\ maxEnd' = mx
         /\ window' = win
         /\ range' = r
         /\ dom' = AppendAll(dom, Upto(r.start, r.end))
         /\ log' = [op |-> "attach", old |-> range,
                    removed |-> << >>, created |-> Upto(r.start, r.end)]
  /\ attached' = TRUE
  /\ listeners' = {"keydown", "resize"}
  /\ UNCHANGED <<scriptVars, items, selected, uiVars, viewVars, detached, pc, iters, timers,
                 chain, calls>>

(* Calls of the three window operations *)

CallShiftForwards ==
  /\ attached /\ pc = "idle" /\ calls < MaxCalls
  /\ calls' = calls + 1
  /\ shiftForwards
  /\ UNCHANGED <<scriptVars, items, uiVars, viewVars, layoutVars, lifeVars, pc, iters,
                 timers, chain>>

CallShiftBackwards ==
  /\ attached /\ pc = "idle" /\ calls < MaxCalls
  /\ calls' = calls + 1
  /\ shiftBackwards
  /\ UNCHANGED <<scriptVars, items, uiVars, viewVars, layoutVars, lifeVars, pc, iters,
                 timers, chain>>

CallShiftRange ==
  /\ attached /\ pc = "idle" /\ calls < MaxCalls
  /\ calls' = calls + 1
  /\ \E start \in TargetStarts, removeExisting \in BOOLEAN :
       shiftRange(start, removeExisting)
  /\ UNCHANGED <<scriptVars, items, uiVars, viewVars, layoutVars, lifeVars, pc, iters,
                 timers, chain>>

(* The IntersectionObserver callback, one entry at a time. The observer is  *)
(* registered by connectedCallback (through a 100 ms timer).               *)

\* entry.isIntersecting, entry.target === startSentinel
SignalStart ==
  /\ attached /\ pc = "idle"
  /\ pc' = "startLoop"
  /\ iters' = 0
  /\ UNCHANGED <<scriptVars, items, selected, uiVars, viewVars, layoutVars, range, dom, lifeVars,
                 timers, chain, calls, log>>

\* one iteration of: while (this.range.start > 0) { shiftBackwards(); if (..) break }
StartLoopStep ==
  /\ pc = "startLoop"
  /\ range.start > 0
  /\ shiftBackwards
  /\ \E off \in SentinelOffsets :
       /\ pc' = IF -off <= -LoopThreshold THEN "idle" ELSE "startLoop"
       /\ iters' = IF pc' = "idle" THEN 0 ELSE Min(iters + 1, MaxIters)
  /\ UNCHANGED <<scriptVars, items, uiVars, viewVars, layoutVars, lifeVars, timers, chain, calls>>

StartLoopExit ==
  /\ pc = "startLoop"
  /\ ~(range.start > 0)
  /\ pc' = "idle"
  /\ iters' = 0
  /\ UNCHANGED <<scriptVars, items, selected, uiVars, viewVars, layoutVars, range, dom, lifeVars,
                 timers, chain, calls, log>>

\* entry.isIntersecting, entry.target === endSentinel
SignalEnd ==
  /\ attached /\ pc = "idle"
  /\ pc' = "endLoop"
  /\ iters' = 0
  /\ UNCHANGED <<scriptVars, items, selected, uiVars, viewVars, layoutVars, range, dom, lifeVars,
                 timers, chain, calls, log>>

\* one iteration of: while (this.range.end <= this.items.length - 1) { .. }
EndLoopStep ==
  /\ pc = "endLoop"
  /\ range.end <= Len(items) - 1
  /\ shiftForwards
  /\ \E off \in SentinelOffsets :
       /\ pc' = IF innerHeight + off >= innerHeight + LoopThreshold
                  THEN "idle" ELSE "endLoop"
       /\ iters' = IF pc' = "idle" THEN 0 ELSE Min(iters + 1, MaxIters)
  /\ UNCHANGED <<scriptVars, items, uiVars, viewVars, layoutVars, lifeVars, timers, chain, calls>>

EndLoopExit ==
  /\ pc = "endLoop"
  /\ ~(range.end <= Len(items) - 1)
  /\ pc' = "idle"
  /\ iters' = 0
  /\ UNCHANGED <<scriptVars, items, selected, uiVars, viewVars, layoutVars, range, dom, lifeVars,
                 timers, chain, calls, log>>

(* adjustRange(removeExisting = true), entered with `pending` timers left *)

\* with the start sentinel's bottom at -bo and the end sentinel's top at
\* innerHeight + to
adjustRangeAt(pending, follow, bo, to) ==
  IF AdjustCond(range, maxEnd, -bo, innerHeight + to, innerHeight)
    THEN /\ \E top \in ContainerTops(totalRows) :
              shiftRange(AdjustStart(top, cols), TRUE)
         /\ timers' = pending + 1
         /\ timers' <= MaxTimers
         /\ chain' = IF follow THEN Min(chain + 1, MaxChain) ELSE chain
    ELSE /\ timers' = pending
         /\ chain' = IF follow THEN 0 ELSE chain
         /\ UNCHANGED <<range, dom, log, selected>>

adjustRange(pending, follow) ==
  \E bo \in SentinelOffsets, to \in SentinelOffsets :
    adjustRangeAt(pending, follow, bo, to)

\* !entry.isIntersecting, entry.target === items
SignalItems ==
  /\ attached /\ pc = "idle"
  /\ adjustRange(timers, FALSE)
  /\ UNCHANGED <<scriptVars, items, uiVars, viewVars, layoutVars, lifeVars, pc, iters, calls>>

\* setTimeout(() => this.adjustRange(), 500) fires
TimerFire ==
  /\ timers > 0 /\ pc = "idle"
  /\ adjustRange(timers - 1, TRUE)
  /\ UNCHANGED <<scriptVars, items, uiVars, viewVars, layoutVars, lifeVars, pc, iters, calls>>

\* resizeListener: teardown, calculateLayout, adjustRange(false)
\* to the size (w, h), with the sentinels read as in adjustRangeAt and the
\* container's top one of `tops`
resizeListener(w, h, bo, to, tops) ==
  /\ "resize" \in listeners /\ pc = "idle"
  /\ LET torn == RemoveAll(dom, Upto(range.start, range.end))
         c == LayoutCols(w)
         tr == LayoutTotalRows(Len(items), c)
         mx == LayoutMaxEnd(Len(items), c)
         win == LayoutWindow(h, c)
         r == LayoutRange(win, mx)
     IN  /\ width' = w /\ innerHeight' = h
         /\ cols' = c /\ totalRows' = tr /\ maxEnd' = mx /\ window' = win
         /\ IF AdjustCond(r, mx, -bo, h + to, h)
              THEN \E top \in tops :
                   /\ range' = SRRange(AdjustStart(top, c), win, mx)
                   /\ dom' = SRDom(torn, r, AdjustStart(top, c), FALSE, win, mx)
                   /\ timers' = timers + 1
                   /\ timers' <= MaxTimers
                   /\ log' = [op |-> "resize", old |-> range,
                              removed |-> Upto(range.start, range.end),
                              created |-> SRCreated(AdjustStart(top, c), win, mx)]
              ELSE /\ range' = r
                   /\ dom' = torn
                   /\ timers' = timers
                   /\ log' = [op |-> "resize", old |-> range,
                              removed |-> Upto(range.start, range.end),
                              created |-> << >>]
  /\ UNCHANGED <<scriptVars, items, selected, uiVars, lifeVars, pc, iters, chain, calls>>

\* the window resized while the element is connected
ResizeAt(w, h, bo, to) ==
  /\ attached
  /\ resizeListener(w, h, bo, to,
                    ContainerTops(LayoutTotalRows(Len(items), LayoutCols(w))))

Resize ==
  \E w \in Widths, h \in Heights, bo \in SentinelOffsets, to \in SentinelOffsets :
    ResizeAt(w, h, bo, to)

(* The grid when the proximity observer delivers no signal. Both sentinels *)
(* stay NearOffset pixels outside the viewport, within AdjustThreshold.    *)
(* What is left to run is the attach, the timers that adjustRange set, and *)
(* the window's resize listener. A pending timer always fires (setTimeout),*)
(* and the element is attached once; a resize is the user's to make or not.*)

NearOffset == 500

TimerFireNear ==
  /\ timers > 0 /\ pc = "idle"
  /\ adjustRangeAt(timers - 1, TRUE, NearOffset, NearOffset)
  /\ UNCHANGED <<scriptVars, items, uiVars, viewVars, layoutVars, lifeVars, pc, iters, calls>>

ResizeNear == \E w \in Widths, h \in Heights : ResizeAt(w, h, NearOffset, NearOffset)

NextQuiet ==
  \/ Attach
  \/ TimerFireNear
  \/ ResizeNear

SpecQuiet ==
  Init /\ [][NextQuiet]_vars /\ WF_vars(Attach) /\ WF_vars(TimerFireNear)

\* The program as its events drive it
Next ==
  \/ Attach
  \/ SignalStart
  \/ StartLoopStep
  \/ StartLoopExit
  \/ SignalEnd
  \/ EndLoopStep
  \/ EndLoopExit
  \/ SignalItems
  \/ TimerFire
  \/ Resize

Spec == Init /\ [][Next]_vars

----------------------------------------------------------------------------
(* Pointer and keyboard input *)

View == [selected |-> selected.selected, primary |-> selected.primary,
         dom |-> dom, summary |-> summary, requests |-> << >>]

Dialog == [file |-> dialogFile, open |-> dialogOpen,
           listener |-> closeListener, threw |-> FALSE]

\* the item with this id: this.items.find(x => x.id === id)
FileOf(id) == items[FindIndex(id) + 1]

\* the handler's results are stored
Store(v, d) ==
  /\ selected' = [selected |-> v.selected, primary |-> v.primary]
  /\ dom' = v.dom
  /\ summary' = v.summary
  /\ dialogFile' = d.file
  /\ dialogOpen' = d.open
  /\ closeListener' = d.listener

\* the elements the model's pointer hits: those of the items at ClickIndices
ClickSlots(s) == {k \in 1..Len(s) : FindIndex(s[k].id) \in ClickIndices}

\* a mousedown on the k-th element: its listener, which ends with
\* showFileDialog for the middle button and with updateSelected otherwise;
\* the modal dialog, while open, takes the pointer
MouseDownOn(k, button, shiftKey, ctrlKey) ==
  /\ attached /\ pc = "idle" /\ ~dialogOpen
  /\ inputs < MaxInputs
  /\ inputs' = inputs + 1
  /\ LET id == dom[k].id
         v == mousedown(View, id, button, shiftKey, ctrlKey)
         returns == button = 3 \/ button = 4
         throws == MouseDownThrows(View, id, button, shiftKey)
         d == IF button = 1 /\ ~returns /\ ~throws
                THEN showFileDialog(Dialog, FileOf(id)) ELSE Dialog
     IN  /\ Store(IF returns \/ throws \/ button = 1 THEN v
                  ELSE updateSelected(v), d)
         /\ log' = [op |-> "mousedown", old |-> range,
                    removed |-> << >>, created |-> << >>,
                    requests |-> v.requests, threw |-> throws \/ d.threw]
  /\ UNCHANGED <<scriptVars, items, viewVars, layoutVars, range, lifeVars, pc, iters,
                 timers, chain, calls>>

MouseDown ==
  \E k \in ClickSlots(dom), button \in Buttons,
     shiftKey \in BOOLEAN, ctrlKey \in BOOLEAN :
    MouseDownOn(k, button, shiftKey, ctrlKey)

PressIndices == {0, 2, 30, 35}

\* the elements pressed: those of the items at PressIndices
PressSlots(s) == {k \in 1..Len(s) : FindIndex(s[k].id) \in PressIndices}

\* a dblclick on the k-th element: this.showFileDialog(file)
DblClick ==
  /\ attached /\ pc = "idle" /\ ~dialogOpen
  /\ inputs < MaxInputs
  /\ inputs' = inputs + 1
  /\ \E k \in PressSlots(dom) :
       LET d == showFileDialog(Dialog, FileOf(dom[k].id))
       IN  /\ Store(View, d)
           /\ log' = [op |-> "dblclick", old |-> range,
                      removed |-> << >>, created |-> << >>,
                      requests |-> << >>, threw |-> d.threw]
  /\ UNCHANGED <<scriptVars, items, viewVars, layoutVars, range, lifeVars, pc, iters,
                 timers, chain, calls>>

ArrowKeys == {"ArrowLeft", "ArrowRight", "ArrowUp", "ArrowDown"}

Neighbour_Wraps(s, k, key, c) ==
  LET n == IF key = "ArrowLeft" THEN k - 1
           ELSE IF key = "ArrowRight" THEN k + 1
           ELSE IF key = "ArrowUp" THEN k - c
           ELSE k + c
  IN  IF n < 1 THEN Len(s) ELSE IF n > Len(s) THEN 1 ELSE n
\* the element an arrow key moves to from the k-th one, 0 for none: the
\* sibling before or after it, or the nearest sibling in the same column
Neighbour(s, k, key, c) ==
  LET n == IF key = "ArrowLeft" THEN k - 1
           ELSE IF key = "ArrowRight" THEN k + 1
           ELSE IF key = "ArrowUp" THEN k - c
           ELSE k + c
  IN  IF n >= 1 /\ n <= Len(s) THEN n ELSE 0

\* keydownListener while this.dialogFile is not null: the file before or
\* after it in the collection
DialogKey_Materialized(d, key) ==
  LET index == FindIndex(d.file)
      shown(i) == \E k \in 1..Len(dom) : dom[k].id = ItemId(i)
  IN  IF key = "ArrowLeft" /\ index > 0 /\ shown(index - 1)
        THEN changeFileDialog(d, items[index])
      ELSE IF key = "ArrowRight" /\ index < Len(items) - 1 /\ shown(index + 1)
        THEN changeFileDialog(d, items[index + 2])
      ELSE d
DialogKey(d, key) ==
  LET index == FindIndex(d.file)
  IN  IF key = "ArrowLeft" /\ index > 0
        THEN changeFileDialog(d, items[index])
      ELSE IF key = "ArrowRight" /\ index < Len(items) - 1
        THEN changeFileDialog(d, items[index + 2])
      ELSE d

\* the element querySelector(`asset-element[id="primary"]`) finds, 0 for none
PrimarySlot(v) ==
  LET hits == {k \in 1..Len(v.dom) : v.dom[k].id = v.primary}
  IN  IF hits = {} THEN 0 ELSE CHOOSE k \in hits : \A j \in hits : k <= j

\* keydownListener while this.dialogFile is null: the view after the key
GridKey(v, key) ==
  IF key \in ArrowKeys
    THEN IF NoPrimary(v.primary) \/ PrimarySlot(v) = 0 THEN v
         ELSE LET n == Neighbour(v.dom, PrimarySlot(v), key, cols)
              IN  IF n = 0 THEN v
                  ELSE updateSelected(
                         setPrimary(setSelected(clearSelected(v),
                                                v.dom[n].id, TRUE),
                                    v.dom[n].id))
  ELSE IF key = "Escape" THEN updateSelected(clearSelected(v))
  ELSE v

\* Enter: this.items.find(x => x.id === primary), then showFileDialog(file)
EnterOpens(primary) ==
  IF NoPrimary(primary) \/ FindIndex(primary) < 0 THEN Null ELSE primary

KeyDownOf(key) ==
  /\ "keydown" \in listeners /\ pc = "idle"
  /\ inputs < MaxInputs
  /\ inputs' = inputs + 1
  /\ LET v == IF dialogFile # Null THEN View ELSE GridKey(View, key)
         d == IF dialogFile # Null THEN DialogKey(Dialog, key)
              ELSE IF key = "Enter" /\ EnterOpens(selected.primary) # Null
                THEN showFileDialog(Dialog, FileOf(selected.primary))
              ELSE Dialog
     IN  /\ Store(v, d)
         /\ log' = [op |-> "keydown", old |-> range,
                    removed |-> << >>, created |-> << >>,
                    requests |-> v.requests, threw |-> d.threw, key |-> key,
                    was |-> selected]
  /\ UNCHANGED <<scriptVars, items, viewVars, layoutVars, range, lifeVars, pc, iters,
                 timers, chain, calls>>

\* the dialog is closed (by the user agent on Escape, or by the click on its
\* backdrop) and its close event is delivered
CloseDialog ==
  /\ dialogOpen
  /\ Store(View, closeFileDialog(Dialog))
  /\ UNCHANGED <<scriptVars, items, viewVars, layoutVars, range, lifeVars, pc, iters,
                 timers, chain, calls, log, inputs>>

\* The program as its events and the user's input drive it. With 36 items
\* maxEnd is 35 in both layouts, so the end loop's condition
\* range.end <= items.length - 1 never fails and the loop is left by its break.
\* The pointer presses the main, the secondary and the back button; the
\* detail view is opened from the keyboard
InitSelect ==
  /\ items \in {MkItems(n) : n \in SelectItemCounts}
  /\ InitGrid

NextSelect ==
  \/ Attach
  \/ SignalStart
  \/ StartLoopStep
  \/ StartLoopExit
  \/ SignalEnd
  \/ EndLoopStep
  \/ SignalItems
  \/ Resize
  \/ MouseDown
  \/ KeyDownOf("Escape")
  \/ KeyDownOf("Enter")
  \/ CloseDialog

SpecSelect == InitSelect /\ [][NextSelect]_vars

(* The pointer with every button and the keyboard with every key the      *)
(* listener tests, while the proximity loops move the window               *)

AllButtons == {0, 1, 2, 3, 4}
Keys == ArrowKeys \cup {"Escape", "Enter"}
Press ==
  \E k \in PressSlots(dom), button \in AllButtons,
     shiftKey \in BOOLEAN, ctrlKey \in BOOLEAN :
    MouseDownOn(k, button, shiftKey, ctrlKey)

KeyDown == \E key \in Keys : KeyDownOf(key)

NextKeys ==
  \/ Attach
  \/ SignalStart
  \/ StartLoopStep
  \/ StartLoopExit
  \/ SignalEnd
  \/ EndLoopStep
  \/ Press
  \/ KeyDown
  \/ CloseDialog

SpecKeys == InitSelect /\ [][NextKeys]_vars

(* Collections whose items may have a file_type the code does not          *)
(* recognize, under the pointer and the keyboard                           *)

KindItemCount == 3
KindTypes == {"image", "video", "document"}

InitKinds ==
  /\ items \in {[k \in 1..KindItemCount |->
                   [id |-> k, file_type |-> types[k]]] :
                types \in [1..KindItemCount -> KindTypes]}
  /\ InitGrid

NextKinds ==
  \/ Attach
  \/ Press
  \/ DblClick
  \/ KeyDown
  \/ CloseDialog

SpecKinds == InitKinds /\ [][NextKinds]_vars

(* The layout alone: collections of every size up to LayoutMaxItems in a   *)
(* wrapper of every width up to LayoutMaxWidth pixels (clientWidth is a    *)
(* non-negative integer), laid out by the attach                           *)

LayoutMaxItems == 12
LayoutMaxWidth == 720

InitLayout ==
  /\ items \in {MkItems(n) : n \in 0..LayoutMaxItems}
  /\ width \in 0..LayoutMaxWidth
  /\ innerHeight \in Heights
  /\ InitFields

NextLayout == Attach

SpecLayout == InitLayout /\ [][NextLayout]_vars

(* The element disconnected. disconnectedCallback runs cleanupListeners,   *)
(* which removes the key listener from the document and asks the document  *)
(* to remove the resize listener, which was added to the window: that      *)
(* removal finds nothing.                                                  *)

Detach ==
  /\ attached /\ pc = "idle"
  /\ attached' = FALSE
  /\ detached' = TRUE
  /\ listeners' = listeners \ {"keydown"}
  /\ UNCHANGED <<scriptVars, items, selected, uiVars, viewVars, layoutVars, range, dom, pc,
                 iters, timers, chain, calls, log>>

\* the window resized after the element was disconnected: the wrapper has no
\* layout box (clientWidth 0) and every getBoundingClientRect() is all zeros
ResizeDetached ==
  /\ detached
  /\ \E h \in Heights : resizeListener(0, h, 0, -h, {0})

NextDetach ==
  \/ Attach
  \/ MouseDown
  \/ KeyDown
  \/ Resize
  \/ Detach
  \/ ResizeDetached

SpecDetach == InitSelect /\ [][NextDetach]_vars

----------------------------------------------------------------------------
(* The FFmpeg build script, run by the processes Runs with one PREFIX.     *)
(* lockDir: the directory $PREFIX/.ffmpeg-build.lock exists; lockOwner:    *)
(* the run whose mkdir created it; pkgConfig: the installed file           *)
(* $PREFIX/lib/pkgconfig/libavcodec.pc exists. run[p] is where run p is:   *)
(* each step below is one command of the script, and `set -e` ends the run *)
(* at a command that fails. The EXIT trap (cleanup) runs at every exit.    *)

\* if [ -f "$PREFIX/lib/pkgconfig/libavcodec.pc" ]; then exit 0; fi
CheckBuilt(p) ==
  /\ run[p] = "start"
  /\ run' = [run EXCEPT ![p] = IF pkgConfig THEN "exit" ELSE "lock"]
  /\ UNCHANGED <<gridVars, lockDir, lockOwner, pkgConfig>>

\* if ! mkdir "$LOCK_FILE": the directory is made, or the run goes to wait
AcquireLock(p) ==
  /\ run[p] = "lock"
  /\ IF lockDir
       THEN /\ run' = [run EXCEPT ![p] = "wait"]
            /\ UNCHANGED <<lockDir, lockOwner>>
       ELSE /\ run' = [run EXCEPT ![p] = "build"]
            /\ lockDir' = TRUE
            /\ lockOwner' = p
  /\ UNCHANGED <<gridVars, pkgConfig>>

\* while [ -d "$LOCK_FILE" ]; do sleep 5; done: left once the directory is gone
WaitLock(p) ==
  /\ run[p] = "wait"
  /\ ~lockDir
  /\ run' = [run EXCEPT ![p] = "recheck"]
  /\ UNCHANGED <<gridVars, lockDir, lockOwner, pkgConfig>>

\* the test after waiting: exit 0 if built, else on to the build
Recheck(p) ==
  /\ run[p] = "recheck"
  /\ run' = [run EXCEPT ![p] = IF pkgConfig THEN "exit" ELSE "build"]
  /\ UNCHANGED <<gridVars, lockDir, lockOwner, pkgConfig>>

\* git clone, ./configure and make succeed
Build(p) ==
  /\ run[p] = "build"
  /\ run' = [run EXCEPT ![p] = "install"]
  /\ UNCHANGED <<gridVars, lockDir, lockOwner, pkgConfig>>

\* make install writes libavcodec.pc among the files it installs
InstallWrites(p) ==
  /\ run[p] = "install"
  /\ pkgConfig' = TRUE
  /\ run' = [run EXCEPT ![p] = "installing"]
  /\ UNCHANGED <<gridVars, lockDir, lockOwner>>

\* make install ends
InstallEnds(p) ==
  /\ run[p] = "installing"
  /\ run' = [run EXCEPT ![p] = "verify"]
  /\ UNCHANGED <<gridVars, lockDir, lockOwner, pkgConfig>>

\* one of git clone, ./configure, make, make install fails
Fails(p) ==
  /\ run[p] \in {"build", "install", "installing"}
  /\ run' = [run EXCEPT ![p] = "exit"]
  /\ UNCHANGED <<gridVars, lockDir, lockOwner, pkgConfig>>

\* the verification of the installation, then the end of the script
Verify(p) ==
  /\ run[p] = "verify"
  /\ run' = [run EXCEPT ![p] = "exit"]
  /\ UNCHANGED <<gridVars, lockDir, lockOwner, pkgConfig>>

\* cleanup: if [ -d "$LOCK_FILE" ]; then rmdir "$LOCK_FILE"; fi
Cleanup(p) ==
  /\ run[p] = "exit"
  /\ run' = [run EXCEPT ![p] = "done"]
  /\ lockDir' = FALSE
  /\ lockOwner' = NoRun
  /\ UNCHANGED <<gridVars, pkgConfig>>

InitBuild ==
  /\ items = << >>
  /\ width = 0 /\ innerHeight = 0
  /\ InitFields

NextBuild ==
  \E p \in Runs :
    \/ CheckBuilt(p)
    \/ AcquireLock(p)
    \/ WaitLock(p)
    \/ Recheck(p)
    \/ Build(p)
    \/ InstallWrites(p)
    \/ InstallEnds(p)
    \/ Fails(p)
    \/ Verify(p)
    \/ Cleanup(p)

SpecBuild == InitBuild /\ [][NextBuild]_vars

(* Calls of the selection operations, with any id *)

CallSetSelectedOf(i, value) ==
  /\ attached /\ pc = "idle" /\ calls < MaxCalls
  /\ calls' = calls + 1
  /\ LET v == setSelected(View, i, value)
     IN  /\ Store(v, Dialog)
         /\ log' = [op |-> "setSelected", old |-> range,
                    removed |-> << >>, created |-> << >>,
                    requests |-> v.requests]
  /\ UNCHANGED <<scriptVars, items, viewVars, layoutVars, range, lifeVars, pc, iters,
                 timers, chain, inputs>>

CallSetSelected ==
  \E i \in CallIds, value \in BOOLEAN : CallSetSelectedOf(i, value)

CallSetPrimaryOf(primary) ==
  /\ attached /\ pc = "idle" /\ calls < MaxCalls
  /\ calls' = calls + 1
  /\ LET v == setPrimary(View, primary)
     IN  /\ Store(v, Dialog)
         /\ log' = [op |-> "setPrimary", old |-> range,
                    removed |-> << >>, created |-> << >>,
                    requests |-> v.requests]
  /\ UNCHANGED <<scriptVars, items, viewVars, layoutVars, range, lifeVars, pc, iters,
                 timers, chain, inputs>>

CallSetPrimary == \E primary \in CallIds \cup {Null} : CallSetPrimaryOf(primary)

CallClearSelected ==
  /\ attached /\ pc = "idle" /\ calls < MaxCalls
  /\ calls' = calls + 1
  /\ LET v == clearSelected(View)
     IN  /\ Store(v, Dialog)
         /\ log' = [op |-> "clearSelected", old |-> range,
                    removed |-> << >>, created |-> << >>,
                    requests |-> v.requests]
  /\ UNCHANGED <<scriptVars, items, viewVars, layoutVars, range, lifeVars, pc, iters,
                 timers, chain, inputs>>

NextSelectCalls ==
  \/ Attach
  \/ CallSetSelected
  \/ CallSetPrimary
  \/ CallClearSelected

SpecSelectCalls == InitSelect /\ [][NextSelectCalls]_vars

(* Presses on a selection made through setSelected, so that a selection of *)
(* several items is there before the first press: a collection of          *)
(* PressItemCount items, those at PressIndices selected and pressed        *)

PressItemCount == 3

InitPress ==
  /\ items = MkItems(PressItemCount)
  /\ InitGrid

CallSelect ==
  \E k \in PressSlots(dom), value \in BOOLEAN :
    CallSetSelectedOf(dom[k].id, value)

\* a press with any button but the primary one
PressOther ==
  \E k \in PressSlots(dom), button \in AllButtons \ {0},
     shiftKey \in BOOLEAN, ctrlKey \in BOOLEAN :
    MouseDownOn(k, button, shiftKey, ctrlKey)

NextPress ==
  \/ Attach
  \/ CallSelect
  \/ PressOther

SpecPress == InitPress /\ [][NextPress]_vars

\* The window operations called in any order, with any target
NextCalls ==
  \/ Attach
  \/ CallShiftForwards
  \/ CallShiftBackwards
  \/ CallShiftRange

SpecCalls == Init /\ [][NextCalls]_vars

----------------------------------------------------------------------------
(* What is materialized *)

\* the indices of the materialized elements
Materialized == {FindIndex(dom[k].id) : k \in 1..Len(dom)}
\* the indices of the range at which an item exists
RangeItems == {i \in range.start..range.end : i >= 0 /\ i < Len(items)}
\* the id attributes of a list of elements
DomIds(s) == [k \in 1..Len(s) |-> s[k].id]
\* the ids of the existing items among the indices of `list`, in list order
IdsOf(list) ==
  LET ok == SelectSeq(list, LAMBDA i : i >= 0 /\ i < Len(items))
  IN  [k \in 1..Len(ok) |-> ItemId(ok[k])]

----------------------------------------------------------------------------
(* C1: once attached, and after any sequence of shiftForwards,            *)
(* shiftBackwards and shiftRange with any target, the range satisfies     *)
(* 0 <= start <= end <= maxIndex.                                          *)
C1_RangeInvariant ==
  attached => /\ 0 <= range.start
              /\ range.start <= range.end
              /\ range.end <= maxEnd

(* C2: after attach and after every completed shift, shiftRange or resize *)
(* the materialized indices are exactly the indices of the range at which *)
(* an item exists.                                                         *)
C2_MaterializedIsRange ==
  attached => Materialized = RangeItems

C4_AtMostCapacity ==
  attached => Len(dom) <= window

(* C5: the shift-again loop of a proximity signal runs no iteration once   *)
(* the range is at the boundary of its side: start = 0 for the leading     *)
(* sentinel, end = maxIndex for the trailing one.                          *)
C5_LoopStopsAtBoundary ==
  [][/\ StartLoopStep => range.start > 0
     /\ EndLoopStep => range.end < maxEnd]_vars

(* C6: the number of consecutive self-scheduled follow-ups of the range    *)
(* adjustment is capped: the chain stays below every bound it is given.    *)
C6_FollowUpsCapped ==
  chain < MaxChain

(* C7: when the resize handler has completed, the materialized indices are *)
(* exactly the new range, one element each, and the grid is not empty      *)
(* unless the collection is.                                               *)
C7_ResizeRebuilds ==
  log.op = "resize" =>
    /\ Materialized = RangeItems
    /\ Len(dom) = Cardinality(RangeItems)
    /\ Len(items) > 0 => Len(dom) > 0

(* C8: end - start + 1 equals the window capacity, except when the range   *)
(* touches a boundary of the collection.                                   *)
C8_FullWindow ==
  attached => \/ range.end - range.start + 1 = window
              \/ range.start = 0
              \/ range.end = maxEnd

C10_ShiftForwards ==
  /\ LET r == [start |-> 0, end |-> 15]
     IN  /\ FwdRange(r, 4, 39) = [start |-> 20, end |-> 35]
         /\ FwdRemoved(r, 4, 39) = Upto(0, 19)
         /\ FwdCreated(r, 4, 39) = Upto(16, 35)
  /\ [][(calls' = calls + 1 /\ log'.op = "shiftForwards") =>
          LET distance == Min(5 * cols, maxEnd - range.end)
              made == IdsOf(log'.created)
          IN  /\ range'.start = range.start + distance
              /\ range'.end = range.end + distance
              /\ log'.removed = Upto(range.start, range'.start - 1)
              /\ log'.created = Upto(range.end + 1, range'.end)
              /\ Len(log'.removed) = distance /\ Len(log'.created) = distance
              /\ Len(dom') >= Len(made)
              /\ DomIds(SubSeq(dom', Len(dom') - Len(made) + 1, Len(dom'))) = made
              /\ range.end = maxEnd => range' = range /\ dom' = dom]_vars

\* a full stride of 5 * columns was shifted in a two-column layout
C10_Witness ==
  /\ log.op = "shiftForwards" /\ calls > 0
  /\ cols = 2
  /\ range.start = log.old.start + 10
  /\ Len(log.created) = 10

C4_Witness ==
  /\ log.op = "shiftBackwards"
  /\ range.start > 0
  /\ Len(log.created) = 5 * cols
  /\ Len(dom) = window

C11_ShiftBackwards ==
  [][(calls' = calls + 1 /\ log'.op = "shiftBackwards") =>
       LET distance == Min(5 * cols, range.start)
           leaving == {log'.removed[k] : k \in 1..Len(log'.removed)}
           \* the created indices that the same call does not remove again
           made == IdsOf(SelectSeq(Upto(range'.start, range.start - 1),
                                   LAMBDA i : i \notin leaving))
       IN  /\ range'.start = range.start - distance
           /\ range'.end = range.end - distance
           /\ {log'.created[k] : k \in 1..Len(log'.created)}
                = range'.start..(range.start - 1)
           /\ {log'.removed[k] : k \in 1..Len(log'.removed)}
                = (range'.end + 1)..range.end
           /\ Len(log'.created) = distance /\ Len(log'.removed) = distance
           /\ Len(dom') >= Len(made)
           /\ DomIds(SubSeq(dom', 1, Len(made))) = made
           /\ range.start = 0 => range' = range /\ dom' = dom]_vars

\* a full stride of 5 * columns was shifted back in a two-column layout
C11_Witness ==
  /\ log.op = "shiftBackwards" /\ calls > 0
  /\ cols = 2
  /\ range.start = log.old.start - 10
  /\ Len(log.created) = 10
  /\ Len(dom) > 10

(* C12: a shiftBackwards that directly follows a shiftForwards, both      *)
(* having moved by the full 5 * columns, restores the range that held      *)
(* before the shiftForwards.                                               *)
C12_ForwardsThenBackwards ==
  [][(/\ log.op = "shiftForwards"
      /\ range.start - log.old.start = 5 * cols
      /\ calls' = calls + 1 /\ log'.op = "shiftBackwards"
      /\ range.start - range'.start = 5 * cols)
     => range' = log.old]_vars

\* one column, window 31: {0,30} was shifted to {5,35} and back to {0,30};
\* no shiftRange target of the model gives {5,35}
C12_Witness ==
  /\ calls = 2
  /\ log.op = "shiftBackwards"
  /\ cols = 1
  /\ log.old = [start |-> 5, end |-> 35]
  /\ range = [start |-> 0, end |-> 30]

(* C13: shiftRange(targetStart, .) sets start to targetStart clamped into  *)
(* [0, maxIndex] and end to min(start + capacity - 1, maxIndex), for       *)
(* every integer targetStart, negative or beyond maxIndex included.        *)
C13_ShiftRangeClamps ==
  log.op = "shiftRange" =>
    /\ range.start = Max(0, Min(log.target, maxEnd))
    /\ range.end = Min(range.start + window - 1, maxEnd)

(* C14: shiftRange(targetStart, dropExisting) applied while exactly the    *)
(* current window is materialized leaves exactly the new range             *)
(* materialized, one element per index: without dropExisting the indices   *)
(* of both ranges keep their element and get no second one, with           *)
(* dropExisting the old elements are removed first.                        *)
C14_ShiftRangeDiff ==
  [][(/\ calls' = calls + 1 /\ log'.op = "shiftRange"
      /\ Materialized = RangeItems
      /\ Len(dom) = Cardinality(RangeItems))
     => /\ Materialized' = RangeItems'
        /\ Len(dom') = Cardinality(RangeItems')
        /\ ~log'.removeExisting =>
             \A k \in 1..Len(dom) :
               FindIndex(dom[k].id) \in RangeItems' =>
                 Cardinality({j \in 1..Len(dom') : dom'[j].id = dom[k].id}) = 1
       ]_vars

(* C15: a shift-click on the element of id b while the primary a is set    *)
(* selects exactly the ids at the positions min(pos a, pos b) ..           *)
(* max(pos a, pos b) of the whole collection, materialized or not, adds no *)
(* other id, whichever of the two positions is the larger.                 *)
C15_RangeSelect ==
  [][\A k \in ClickSlots(dom), button \in Buttons \ {3}, ctrlKey \in BOOLEAN :
       (selected.primary # Null /\ MouseDownOn(k, button, TRUE, ctrlKey)) =>
         LET a == FindIndex(selected.primary)
             b == FindIndex(dom[k].id)
         IN  selected'.selected =
               selected.selected \cup {ItemId(i) : i \in Min(a, b)..Max(a, b)}
    ]_vars

\* with the range at {0,30}, a second input, a shift-click on the item at 30,
\* has selected 30..35 from the anchor at 35, which is not materialized
C15_Witness ==
  /\ log.op = "mousedown" /\ inputs = 2
  /\ range = [start |-> 0, end |-> 30]
  /\ selected.primary = ItemId(30)
  /\ selected.selected = {ItemId(i) : i \in 30..35}
  /\ 35 \notin Materialized

(* C16: selected holds only ids of items of the collection and primary is  *)
(* null or such an id, so a selection operation given an id that is not    *)
(* in the collection changes neither.                                      *)
C16_SelectionValid ==
  LET ids == {items[k].id : k \in 1..Len(items)}
  IN  /\ selected.selected \subseteq ids
      /\ selected.primary \in ids \cup {Null}

(* C17: a ctrl-click on an element flips the membership of its id in       *)
(* selected and touches no other id; toggling an id in leaves primary as   *)
(* it was, and toggling out the primary sets primary to null.              *)
C17_Toggle ==
  [][\A k \in ClickSlots(dom), button \in Buttons \ {3}, shiftKey \in BOOLEAN :
       ((~shiftKey \/ selected.primary = Null)
        /\ MouseDownOn(k, button, shiftKey, TRUE)) =>
         LET id == dom[k].id
         IN  IF id \in selected.selected
               THEN /\ selected'.selected = selected.selected \ {id}
                    /\ selected'.primary =
                         IF selected.primary = id THEN Null ELSE selected.primary
               ELSE /\ selected'.selected = selected.selected \cup {id}
                    /\ selected'.primary = selected.primary
    ]_vars

(* C18: the window operations (the shifts of the proximity loops, the      *)
(* range adjustment and the resize handler) leave selected and primary     *)
(* unchanged, also for the items whose elements they remove: a step that   *)
(* changes either is none of theirs.                                       *)
C18_WindowKeepsSelection ==
  [][(selected' # selected /\ inputs' = inputs) =>
       ~(StartLoopStep \/ EndLoopStep \/ SignalItems \/ Resize)]_vars

\* a backward shift has removed the element of the primary, selected item
C18_Witness ==
  /\ log.op = "shiftBackwards"
  /\ selected.primary # Null
  /\ selected.primary \in selected.selected
  /\ FindIndex(selected.primary) \notin Materialized
  /\ FindIndex(selected.primary) \in log.old.start..log.old.end

(* C19: every materialized element carries the selected attribute exactly  *)
(* when its id is in selected.                                             *)
C19_MarksMatchSelection ==
  \A k \in 1..Len(dom) : dom[k].selected <=> dom[k].id \in selected.selected

\* the anchor at 35 and a shift-click on 30 have selected 30..35, and a
\* forward shift from {0,30} has then created the elements of 31..35
C19_Witness ==
  /\ log.op = "shiftForwards" /\ inputs = 2
  /\ log.old = [start |-> 0, end |-> 30]
  /\ range = [start |-> 5, end |-> 35]
  /\ selected.primary = ItemId(30)
  /\ selected.selected = {ItemId(i) : i \in 30..35}
  /\ \A k \in 1..Len(dom) : FindIndex(dom[k].id) >= 30 => dom[k].selected

(* C20: with no detail view open, Enter opens the detail view of the       *)
(* primary item, whatever its id (0 included), and opens nothing when      *)
(* primary is null.                                                        *)
C20_EnterOpensPrimary ==
  [][(dialogFile = Null /\ KeyDownOf("Enter")) =>
       dialogFile' = selected.primary]_vars

(* C21: after an Escape key event has been handled, selected is empty and  *)
(* primary is null, whatever was selected and wherever its items are.      *)
C21_EscapeClears ==
  [][KeyDownOf("Escape") =>
       selected' = [selected |-> {}, primary |-> Null]]_vars

(* C21, with the detail view closed: an Escape key event handled while     *)
(* dialogFile is null leaves selected empty and primary null.              *)
C21_EscapeClearsInGrid ==
  [][(dialogFile = Null /\ KeyDownOf("Escape")) =>
       selected' = [selected |-> {}, primary |-> Null]]_vars

\* Escape has cleared a selection whose item was not materialized
C21_Witness ==
  /\ log.op = "keydown" /\ log.key = "Escape"
  /\ \E id \in log.was.selected : FindIndex(id) \notin Materialized
  /\ log.was.primary # Null
  /\ selected = [selected |-> {}, primary |-> Null]

\* the index an arrow key aims at from the item at index p, in c columns
TargetIndex(p, key, c) ==
  IF key = "ArrowLeft" THEN p - 1
  ELSE IF key = "ArrowRight" THEN p + 1
  ELSE IF key = "ArrowUp" THEN p - c
  ELSE p + c

(* C22: an arrow-key event is not acted on when the primary item is not    *)
(* materialized or the item it aims at is not: selected, primary, the      *)
(* range and the materialized elements stay as they were.                  *)
C22_ArrowNotActedOn ==
  [][\A key \in ArrowKeys :
       (/\ inputs' = inputs + 1 /\ log'.op = "keydown" /\ log'.key = key
        /\ selected.primary # Null
        /\ \/ FindIndex(selected.primary) \notin Materialized
           \/ TargetIndex(FindIndex(selected.primary), key, cols)
                 \notin Materialized
        /\ KeyDownOf(key))
       => UNCHANGED <<selected, range, dom>>]_vars

\* ArrowLeft has been handled with the primary item, at index 2, behind the
\* window
C22_Witness ==
  /\ log.op = "keydown" /\ log.key = "ArrowLeft"
  /\ dialogFile = Null
  /\ selected.primary = ItemId(2)
  /\ 2 \notin Materialized /\ 1 \notin Materialized

(* C23: with no detail view open and the primary item, at index p,         *)
(* materialized, ArrowLeft / ArrowRight move to the materialized item at   *)
(* p - 1 / p + 1 and ArrowUp / ArrowDown to the one at p - cols / p + cols;*)
(* afterwards selected is that item's id alone and primary is that id.     *)
C23_ArrowMoves ==
  [][\A key \in ArrowKeys :
       LET p == FindIndex(selected.primary)
           t == TargetIndex(p, key, cols)
       IN  (/\ dialogFile = Null
            /\ selected.primary # Null
            /\ p \in Materialized /\ t \in Materialized
            /\ KeyDownOf(key))
           => selected' = [selected |-> {ItemId(t)}, primary |-> ItemId(t)]
    ]_vars

(* C24: setPrimary(p), for p null or the id of an item, requests the       *)
(* preview of p exactly when p is not null and differs from the primary    *)
(* before the call; otherwise it requests nothing.                         *)
C24_PreviewRequest ==
  [][\A p \in {items[k].id : k \in 1..Len(items)} \cup {Null} :
       CallSetPrimaryOf(p) =>
         log'.requests = IF p # Null /\ p # selected.primary
                           THEN << p >> ELSE << >>]_vars

\* setPrimary has been called with the id that was primary already, and
\* has requested nothing
C24_Witness ==
  /\ log.op = "setPrimary" /\ log.requests = << >>
  /\ selected.primary = ItemId(0)

(* C25: after every pointer or keyboard input that changes the selection   *)
(* the summary shown is the one for the size of selected: "No items        *)
(* selected", "1 item selected", "n items selected".                       *)
C25_SummaryShown ==
  [][(selected' # selected /\ (Press \/ KeyDown)) =>
       summary' = SummaryText(Cardinality(selected'.selected))]_vars

\* the indices around the collection: before it, and from its length up to
\* the last index of the last row (and one more)
OutIndices == {-1} \cup (Len(items)..(maxEnd + 1))

(* C26: createElement(i) and removeElement(i) for i < 0 or i >= N, the     *)
(* padded indices N..maxEnd included, create nothing and remove nothing:   *)
(* the elements, the range and the selection are as they were, and every   *)
(* element is the element of an item.                                      *)
C26_OutOfRangeNoOp ==
  /\ \A i \in OutIndices :
       /\ createElement(i) = << >>
       /\ removeElement(dom, i) = dom
  /\ \A k \in 1..Len(dom) : FindIndex(dom[k].id) \in 0..(Len(items) - 1)

\* the attach loop has passed the padded index 3 of a 3-item collection in
\* two columns and has created the three elements of the items
C26_Witness ==
  /\ log.op = "attach"
  /\ Len(items) = 3 /\ maxEnd = 3
  /\ log.created = Upto(0, 3)
  /\ Len(dom) = 3

\* createSource's test of the file_type of the item with this id
Unrecognized(id) == createSourceThrows(FileOf(id).file_type)

(* C27: an item whose kind is not image, video or audio raises an error    *)
(* when it reaches the render boundary: no step leaves an element of such  *)
(* an item in the grid, and a step that makes such an item the detail      *)
(* view's file throws.                                                     *)
C27_UnknownKindFails ==
  [][/\ \A k \in 1..Len(dom') : ~Unrecognized(dom'[k].id)
     /\ (dialogFile' # dialogFile /\ dialogFile' # Null
           /\ Unrecognized(dialogFile')) => log'.threw
    ]_vars

(* C28: with the end sentinel staying within the threshold and the range   *)
(* short of maxEnd after the attach, the window is eventually shifted,     *)
(* with no signal of the proximity observer.                               *)
C28_EventuallyShifted ==
  (attached /\ log.op = "attach" /\ range.end < maxEnd) ~> (log.op # "attach")

(* C29: shiftRange run twice in a row with the same target start and the   *)
(* same dropExisting flag, whichever it is, leaves after the second run    *)
(* the range and the materialized elements that the first run left.        *)
C29_Idempotent ==
  [][(/\ calls' = calls + 1
      /\ log.op = "shiftRange" /\ log'.op = "shiftRange"
      /\ log'.target = log.target
      /\ log'.removeExisting = log.removeExisting)
     => /\ range' = range
        /\ dom' = dom
    ]_vars

(* C30: the attach sets the range to {0, min(capacity - 1, maxIndex)} for   *)
(* every layout and materializes exactly the existing items of those       *)
(* indices, in ascending index order; for 10 items in 4 columns maxIndex   *)
(* is 11, so that range is {0, min(capacity - 1, 11)}.                     *)
C30_InitialRange ==
  [][Attach =>
       /\ range' = [start |-> 0, end |-> Min(window' - 1, maxEnd')]
       /\ DomIds(dom') =
            [k \in 1..Max(0, Min(range'.end + 1, Len(items))) |-> ItemId(k - 1)]
       /\ LayoutMaxEnd(10, 4) = 11
       /\ \A h \in Heights :
            LayoutRange(LayoutWindow(h, 4), LayoutMaxEnd(10, 4)) =
              [start |-> 0, end |-> Min(LayoutWindow(h, 4) - 1, 11)]
    ]_vars

\* just attached: 71 items in two columns, the first 62 of them materialized
C30_Witness ==
  /\ log.op = "attach" /\ cols = 2 /\ Len(items) = 71
  /\ range = [start |-> 0, end |-> 61]
  /\ DomIds(dom) = [k \in 1..62 |-> ItemId(k - 1)]

(* C31: for every viewport width W >= 0 the layout has                     *)
(* columns = max(1, floor((W + 25) / 175)), so at least one column; a      *)
(* width of 700 gives 4 columns.                                           *)
C31_Columns ==
  attached =>
    /\ cols = Max(1, (width + 25) \div 175)
    /\ cols >= 1
    /\ width = 700 => cols = 4

\* ten items laid out in a wrapper 700 pixels wide: four columns
C31_Witness ==
  /\ attached /\ width = 700 /\ cols = 4 /\ Len(items) = 10

(* C32: for every N >= 0 and columns >= 1, totalRows = ceil(N / columns)   *)
(* and maxIndex = totalRows * columns - 1, so maxIndex + 1 is a multiple   *)
(* of columns and N - 1 <= maxIndex < N - 1 + columns; 10 items in 4       *)
(* columns give totalRows = 3 and maxIndex = 11.                           *)
C32_RowsAndMaxIndex ==
  attached =>
    /\ totalRows * cols >= Len(items)
    /\ (totalRows - 1) * cols < Len(items)
    /\ maxEnd = totalRows * cols - 1
    /\ (maxEnd + 1) % cols = 0
    /\ Len(items) - 1 <= maxEnd
    /\ maxEnd < Len(items) - 1 + cols
    /\ (Len(items) = 10 /\ cols = 4) => (totalRows = 3 /\ maxEnd = 11)

\* ten items laid out in four columns, the last row padded by two indices
C32_Witness ==
  /\ attached /\ Len(items) = 10 /\ cols = 4
  /\ totalRows = 3 /\ maxEnd = 11

(* C33: in every state reached through presses (plain, ctrl and shift,   *)
(* any button) and keys (arrows, Escape, Enter), primary is null or a      *)
(* member of selected.                                                     *)
C33_PrimaryInSelected ==
  selected.primary = Null \/ selected.primary \in selected.selected

\* two presses made: two ids selected, the primary one of them
C33_Witness ==
  /\ log.op = "mousedown" /\ inputs = 2
  /\ Cardinality(selected.selected) >= 2
  /\ selected.primary \in selected.selected

(* C34: dialogFile is non-null exactly while the detail view is open: set  *)
(* when the view opens or is navigated, null again once it has closed,     *)
(* also when the opening failed on an item of an unrecognized kind.        *)
C34_DialogFileWhileOpen ==
  (dialogFile # Null) <=> dialogOpen

(* C35: while a detail view is open, ArrowLeft and ArrowRight move it to  *)
(* the item at position - 1 and position + 1 of the whole collection,      *)
(* materialized or not, and do nothing at position 0 and N - 1; no key     *)
(* (arrows, Escape, Enter) changes selected, primary or the range.         *)
C35_DialogKeys ==
  [][(dialogOpen /\ inputs' = inputs + 1 /\ log'.op = "keydown")
     => LET position == FindIndex(dialogFile)
        IN  /\ dialogFile' =
                 IF log'.key = "ArrowLeft" /\ position > 0
                   THEN ItemId(position - 1)
                 ELSE IF log'.key = "ArrowRight" /\ position < Len(items) - 1
                   THEN ItemId(position + 1)
                 ELSE dialogFile
            /\ dialogOpen'
            /\ selected' = selected
            /\ range' = range
    ]_vars

\* the view moved by ArrowRight from the last materialized item to the
\* first one that has no element
C35_Witness ==
  /\ log.op = "keydown" /\ log.key = "ArrowRight" /\ dialogOpen
  /\ FindIndex(dialogFile) = 31
  /\ \A k \in 1..Len(dom) : dom[k].id # dialogFile

(* C36: in every state the grid's own handlers reach, where shiftRange is  *)
(* only called by adjustRange with a target that is a multiple of columns, *)
(* start and end + 1 are multiples of columns: the window covers whole     *)
(* rows and the row offset floor(start / columns) is exact.                *)
C36_WholeRows ==
  attached =>
    /\ range.start % cols = 0
    /\ (range.end + 1) % cols = 0
    /\ (range.start \div cols) * cols = range.start
    /\ log.op = "shiftRange" => log.target % cols = 0

\* two columns, the window moved by adjustRange to the fifth row
C36_Witness ==
  /\ log.op = "shiftRange" /\ cols = 2
  /\ log.target = 8 /\ range.start = 8 /\ range.end = 69

(* C37: once the grid is detached both listeners registered by the attach *)
(* are unregistered, and no later key event or resize notification changes *)
(* the range, the materialized elements or the selection.                  *)
C37_DetachedIsInert ==
  [][/\ detached' => listeners' = {}
     /\ (detached /\ (KeyDown \/ ResizeDetached))
          => (range' = range /\ dom' = dom /\ selected' = selected)
    ]_vars

(* C38: a press with the back or forward button (3 or 4) on an item, and  *)
(* a press with a button other than the primary one, without ctrl and      *)
(* shift, on an item that is selected, leave selected and primary as they  *)
(* were: a selection of several items survives a secondary-button press on *)
(* one of them.                                                            *)
C38_PressKeepsSelection ==
  [][inputs' = inputs + 1 =>
       \A k \in PressSlots(dom), button \in AllButtons \ {0},
          shiftKey \in BOOLEAN, ctrlKey \in BOOLEAN :
         ((\/ button \in {3, 4}
           \/ ~shiftKey /\ ~ctrlKey /\ dom[k].id \in selected.selected)
          /\ MouseDownOn(k, button, shiftKey, ctrlKey))
         => selected' = selected
    ]_vars

\* two ids selected, then a press with the secondary button on one of them
C38_Witness ==
  /\ log.op = "mousedown" /\ inputs = 1 /\ ~dialogOpen
  /\ selected = [selected |-> {ItemId(0), ItemId(2)}, primary |-> Null]
  /\ summary = SummaryText(2)

(* C39: whatever proximity signals, resize notifications and timer firings *)
(* occur, at most one follow-up check that adjustRange scheduled is        *)
(* pending at any time.                                                    *)
C39_OneFollowUp ==
  timers <= 1

(* C40: with several runs of the build script on one PREFIX, at most one   *)
(* run is in the clone / configure / make / install phase at any time,     *)
(* whether or not an earlier holder of the lock built successfully, and a  *)
(* run removes the lock directory only if its own mkdir created it.        *)
C40_LockExcludes ==
  [][/\ Cardinality({p \in Runs :
                       run'[p] \in {"build", "install", "installing"}}) <= 1
     /\ \A p \in Runs :
          (run[p] = "exit" /\ run'[p] = "done" /\ lockDir /\ ~lockDir')
            => lockOwner = p
    ]_vars

====
